---- MODULE Spec2Model ----
(***************************************************************************)
(* Training orchestration of the speech-enhancement Solver                 *)
(* (src/Demucs/denoiser/denoiser/solver.py): construction and resume       *)
(* (_reset), the epoch loop (train), the batch loop (_run_one_epoch) and   *)
(* the two checkpoint writers (_serialize, save_ckpts), run by one process *)
(* per distributed rank over a shared file system, with process            *)
(* termination possible between any two steps.                             *)
(***************************************************************************)
EXTENDS Integers, Sequences, FiniteSets, TLC

\* ---------------------------------------------------------------- bounds
MaxEpochs == 2        \* largest epoch budget (args.epochs) explored
MaxRuns   == 2        \* process launches explored, one after the other
MaxLoss   == 2        \* validation losses are drawn from 1..MaxLoss
MaxBatches == 2       \* loaders followed batch by batch have 0..MaxBatches batches
MaxDiff   == 1        \* distances between clean and estimate are in 0..MaxDiff
MaxGain   == 2        \* frame-energy weights are in 1..MaxGain

\* ------------------------------------------------------ program constants
SaveEvery == 1000     \* (i+1) % 1000 == 0 in _run_one_epoch

Ranks  == {0, 1}      \* distrib.rank of the workers of a launch
Losses == 1 .. MaxLoss

VARIABLES
    cfgs,        \* the configurations launches are drawn from (fixed)
    args,        \* the options of the running launch read after __init__
    boot,        \* per rank: the options only __init__/_reset read
    alive,       \* TRUE while the processes of a launch exist
    runs,        \* launches started so far
    fs,          \* the file system: path -> file
    pc,          \* per rank: position in __init__ / train / _run_one_epoch
    epoch,       \* per rank: self.epoch
    nxt,         \* per rank: next value of range(len(history), epochs)
    i,           \* per rank: enumerate index of the batch loop
    history,     \* per rank: self.history
    model,       \* per rank: self.model's state_dict (the weights)
    optimizer,   \* per rank: self.optimizer's state
    best_state,  \* per rank: self.best_state
    valid_loss,  \* per rank: valid_loss of the epoch in progress
    first,       \* per rank: first value of range(len(history), epochs)
    last,        \* how the previous launch ended (history variable)
    loss_args,   \* the options _run_one_epoch reads to compose the loss
    run,         \* one call of _run_one_epoch followed batch by batch
    ac           \* the AcousticLoss object (self.ac_loss)

vars == <<cfgs, args, boot, alive, runs, fs, pc, epoch, nxt, i, history, model,
          optimizer, best_state, valid_loss, first, last, loss_args, run, ac>>

\* ------------------------------------------------------------ values
\* A weights (or optimizer) state is named by where it came from and how
\* many optimizer steps were applied to it since.
State(b, n) == [base |-> b, steps |-> n]
InitModel   == State("init", 0)        \* the model handed to Solver()
FreshOptim  == State("fresh", 0)       \* the optimizer handed to Solver()
Pretrained  == State("pretrained", 0)  \* getattr(pretrained, name)()
NoneState   == State("none", 0)        \* Python's None

\* self.best_state: None, or a mapping of tensors.  alias = TRUE would mean
\* the mapping shares its tensors with the live model.
NoBest == [alias |-> FALSE, val |-> NoneState]

EmptyPkg == [model |-> NoneState, optim |-> "none", has_opt |-> FALSE,
             optimizer |-> NoneState,
             history |-> <<>>, best_state |-> NoneState]

\* The package found at args.continue_from: written by some other run.
ExtPkg == [model |-> State("ext", 0), optim |-> "adam", has_opt |-> TRUE,
           optimizer |-> State("ext_optim", 0),
           history |-> << [train |-> 0, valid |-> 1, best |-> 1,
                           eval |-> FALSE, snap |-> State("ext", 0),
                           evalw |-> NoneState, evalbest |-> NoneState] >>,
           best_state |-> State("ext_best", 0)]

Absent   == [st |-> "absent",  pkg |-> EmptyPkg]
Partial  == [st |-> "partial", pkg |-> EmptyPkg]
Complete(p) == [st |-> "complete", pkg |-> p]

\* ----------------------------------------------------- AcousticLoss
\* The loss kinds forward knows (TAPLoss.py lines 66-75).
AcTypes == {"l2", "l1", "frame_energy_weighted_l2", "frame_energy_weighted_l1"}

\* The kinds an AcousticLoss is constructed with here: the four, and one
\* that is none of them.
AcTypeInputs == AcTypes \cup {"cosine"}

\* The mode arguments forward is called with: the two it knows, and one
\* it does not.
ModeInputs == {"train", "eval", "test"}

\* What is remembered of the latest call of forward: the mode argument,
\* the estimator's mode before the call, the operations run in order, the
\* exception raised (if any) and the value returned.
NoCall == [mode |-> "none", before |-> TRUE, ops |-> <<>>, err |-> "none",
           value |-> 0]

\* No AcousticLoss has been constructed.
NotBuilt == [built |-> FALSE, loss_type |-> "none", training |-> TRUE,
             last |-> NoCall]

\* AcousticLoss.__init__, lines 18-29: the kind is stored, an l2 or l1
\* criterion is made for these two kinds, the estimator is loaded; a
\* freshly made torch module is in training mode.
AcousticInit(t) == [built |-> TRUE, loss_type |-> t, training |-> TRUE,
                    last |-> NoCall]

\* A variant of EstimatorMode: the estimator is always put in training
\* mode.
EstimatorModeTrain(mode, cur) == TRUE

\* lines 49-52: estimate_acoustics.train() or .eval().
EstimatorMode(mode, cur) ==
    IF mode = "train" THEN TRUE ELSE IF mode = "eval" THEN FALSE ELSE cur

\* lines 66-75: the loss over the distance a of the two embeddings, with g
\* the weight the frame energy gives.
AcDistance(t, a, g) ==
    IF t = "l2" THEN a * a
    ELSE IF t = "l1" THEN a
    ELSE IF t = "frame_energy_weighted_l2" THEN g * a * a
    ELSE g * a

\* forward, lines 49-79: ok tells whether a value is returned; obj is the
\* object after the call.
Forward(o, mode, a, g) ==
    LET bad_mode == mode \notin {"train", "eval"}
        bad_type == o.loss_type \notin AcTypes
        ops == IF bad_mode THEN <<>>
               ELSE <<"stft", "stft", "estimator", "estimator">>
        err == IF bad_mode THEN "mode"
               ELSE IF bad_type THEN "loss_type" ELSE "none"
        val == IF err = "none" THEN AcDistance(o.loss_type, a, g) ELSE 0
    IN [ok |-> err = "none", value |-> val,
        obj |-> [o EXCEPT !.training = EstimatorMode(mode, o.training),
                          !.last = [mode |-> mode, before |-> o.training,
                                    ops |-> ops, err |-> err, value |-> val]]]

\* A variant of Call: the mode defaults to "eval".
CallEval(o, a, g) == Forward(o, "eval", a, g)

\* __call__, lines 31-32: the mode defaults to "train".
Call(o, a, g) == Forward(o, "train", a, g)

\* --------------------------------- values of a followed _run_one_epoch
\* The loss options of a Solver whose passes are not followed.
NoLossArgs ==
    [loss |-> "l1", stft_loss |-> FALSE, stft_loss_weight |-> 2,
     acoustic_loss |-> FALSE, ac_loss_weight |-> 3,
     acoustic_loss_only |-> FALSE, gradient_clip |-> FALSE]

\* The losses of the latest batch: loss, enh_loss, ac_loss; raw, what
\* self.ac_loss returned before the weight; d, the distance of clean and
\* estimate the batch had.
NoBatch == [loss |-> 0, enh |-> 0, ac |-> 0, raw |-> 0, d |-> 0]

\* return_stuff, lines 321-323: the three sums over n = i + 1 batches, each
\* average being its sum divided by n.
NoRet == [n |-> 0, total_loss |-> 0, total_enhancement_loss |-> 0,
          total_acoustic_loss |-> 0]

\* No call of _run_one_epoch is followed.  model0 and optim0 remember the
\* weights and the optimizer state at the start of the call, ops the
\* operations of the latest batch in order, steps the optimizer steps of
\* the pass, saves the calls of save_ckpts; model_training is the mode
\* self.model was put in before the call (a module starts in training
\* mode).
Idle ==
    [pc |-> "idle", cross_valid |-> FALSE, n |-> 0, i |-> 0,
     total_loss |-> 0, total_enhancement_loss |-> 0, total_acoustic_loss |-> 0,
     ops |-> <<>>, err |-> "none", batch |-> NoBatch, ret |-> NoRet,
     model0 |-> NoneState, optim0 |-> NoneState, steps |-> 0, saves |-> 0,
     model_training |-> TRUE]

\* ------------------------------------------------------------- paths
CheckpointFile == <<"checkpoint_file", 0>>          \* args.checkpoint_file
CheckpointTmp  == <<"checkpoint_file.tmp", 0>>
BestFile       == <<"best_file", 0>>                \* args.best_file
BestTmp        == <<"best_file.tmp", 0>>
HistoryFile    == <<"history_file", 0>>             \* args.history_file
CkptDir        == <<"checkpoints", 0>>              \* ./checkpoints
NamedCkpt(n)   == <<"checkpoints/checkpoint_epoch", n>>
Paths == {CheckpointFile, CheckpointTmp, BestFile, BestTmp, HistoryFile,
          CkptDir} \cup {NamedCkpt(n) : n \in 1 .. MaxEpochs}

\* The files a Solver writes as checkpoints.
CheckpointPaths == {CheckpointFile, BestFile}
                       \cup {NamedCkpt(n) : n \in 1 .. MaxEpochs}

\* ------------------------------------------------------ configurations
\* The options of a launch the Solver reads.  tr_len is len(tr_loader).
ConfigSet ==
    [world : {1, 2},
     checkpoint : BOOLEAN, restart : BOOLEAN,
     continue_from : BOOLEAN, continue_best : BOOLEAN,
     continue_pretrained : BOOLEAN,
     optim : {"adam", "sgd"},
     save_again : BOOLEAN, save_checkpoints : BOOLEAN,
     epochs : 0 .. MaxEpochs,
     cv_loader : BOOLEAN, tt_loader : BOOLEAN, eval_every : 1 .. 2,
     tr_len : {1, SaveEvery}]

\* The launches explored on one worker: every way of resuming a
\* checkpointed run with a validation loader, and fresh starts over the
\* other options.
MainConfigs ==
    {c \in ConfigSet :
        /\ c.world = 1 /\ ~c.tt_loader /\ c.eval_every = 1
        /\ (c.continue_best => c.continue_from)
        /\ \/ /\ c.checkpoint /\ c.cv_loader /\ c.save_checkpoints
              /\ ~c.save_again /\ c.tr_len = 1
           \/ /\ ~c.restart /\ ~c.continue_from /\ ~c.continue_pretrained
              /\ c.optim = "adam" /\ c.epochs = MaxEpochs}

\* The distributed launches explored: fresh checkpointed starts on two
\* workers.
DistConfigs ==
    {c \in ConfigSet :
        /\ c.world = 2 /\ ~c.tt_loader /\ c.eval_every = 1
        /\ c.checkpoint /\ c.cv_loader /\ c.save_checkpoints
        /\ ~c.restart /\ ~c.continue_from /\ ~c.continue_best
        /\ ~c.continue_pretrained /\ c.optim = "adam"
        /\ c.epochs = MaxEpochs}

\* The options read after construction: by train, _run_one_epoch and the
\* checkpoint writers.
\* One worker with checkpoints and validation; the epoch budget, restart,
\* the pretrained identifier and the length of the loader vary.
LoopConfigs ==
    {c \in ConfigSet :
        /\ c.world = 1 /\ ~c.tt_loader /\ c.eval_every = 1
        /\ c.checkpoint /\ c.cv_loader /\ c.save_checkpoints /\ ~c.save_again
        /\ ~c.continue_from /\ ~c.continue_best /\ c.optim = "adam"}

\* One worker with checkpoints and validation; the test loader, the
\* evaluation interval, the epoch budget and the length of the loader vary.
EvalConfigs ==
    {c \in ConfigSet :
        /\ c.world = 1 /\ c.checkpoint /\ c.cv_loader /\ c.save_checkpoints
        /\ ~c.save_again /\ ~c.restart /\ ~c.continue_from /\ ~c.continue_best
        /\ ~c.continue_pretrained /\ c.optim = "adam"}

RunArgs(c) ==
    [world |-> c.world, checkpoint |-> c.checkpoint, optim |-> c.optim,
     save_again |-> c.save_again, save_checkpoints |-> c.save_checkpoints,
     epochs |-> c.epochs, cv_loader |-> c.cv_loader,
     tt_loader |-> c.tt_loader, eval_every |-> c.eval_every,
     tr_len |-> c.tr_len]

\* The options only _reset reads (lines 122-126 and 142); given marks the
\* record of a rank that is being constructed.
BootArgs(c) ==
    [given |-> TRUE, restart |-> c.restart, continue_from |-> c.continue_from,
     continue_best |-> c.continue_best,
     continue_pretrained |-> c.continue_pretrained]

NoArgs == [world |-> 1, checkpoint |-> FALSE, optim |-> "adam",
           save_again |-> FALSE, save_checkpoints |-> FALSE, epochs |-> 0,
           cv_loader |-> FALSE, tt_loader |-> FALSE, eval_every |-> 1,
           tr_len |-> 1]

NoBoot == [given |-> FALSE, restart |-> FALSE, continue_from |-> FALSE,
           continue_best |-> FALSE, continue_pretrained |-> FALSE]

NoLast == [kind |-> "none", ref |-> FALSE, pc |-> "off", epoch |-> 0,
           checkpoint |-> FALSE, epochs |-> 0, history |-> <<>>,
           model |-> NoneState]

ContinueFrom == <<"continue_from", 0>>              \* args.continue_from
NoPath       == <<"none", 0>>                       \* load_from = None

\* torch.load's view of a path: the continue-from package is an input of
\* the run, every other path is a file of the modelled file system.
ReadFile(f, p) == IF p = ContinueFrom THEN Complete(ExtPkg) ELSE f[p]

\* --------------------------------------------------------------- helpers
Upd(f, w, v) == [f EXCEPT ![w] = v]

Workers == {w \in Ranks : w < args.world}

Min(S) == CHOOSE x \in S : \A y \in S : x <= y

\* utils.pull_metric(history, name): the values of one key, in order.
pull_metric(h) == {h[k].valid : k \in 1 .. Len(h)}

\* utils.copy_state(state): a detached clone of every tensor.
copy_state(s) == [alias |-> FALSE, val |-> s]

\* The tensors self.best_state holds for rank w, as a reader sees them.
BestVal(w) == IF best_state[w].alias THEN model[w] ELSE best_state[w].val

\* One optimizer.step() per batch, over k batches.
OptimStep(s, k) == [s EXCEPT !.steps = @ + k]

\* ----------------------------------------------------- Solver._reset
\* line 122.
UseCheckpoint(a, b, f) ==
    a.checkpoint /\ f[CheckpointFile].st # "absent" /\ ~b.restart

\* A variant of LoadFrom: the continue-from path wins over the checkpoint.
LoadFromExternalFirst(a, b, f) ==
    IF b.continue_from THEN ContinueFrom
    ELSE IF UseCheckpoint(a, b, f) THEN CheckpointFile
    ELSE NoPath

\* load_from, lines 118 and 122-125.
LoadFrom(a, b, f) ==
    IF UseCheckpoint(a, b, f) THEN CheckpointFile
    ELSE IF b.continue_from THEN ContinueFrom
    ELSE NoPath

\* load_best, lines 119 and 126.
LoadBest(a, b, f) ==
    IF UseCheckpoint(a, b, f) THEN FALSE
    ELSE IF b.continue_from THEN b.continue_best
    ELSE FALSE

\* A variant of KeepHistory: the history of any loaded package is kept.
KeepHistoryAlways(a, b, f) == TRUE

\* keep_history, lines 120 and 127.
KeepHistory(a, b, f) ==
    IF UseCheckpoint(a, b, f) THEN TRUE
    ELSE IF b.continue_from THEN FALSE
    ELSE TRUE

\* A variant of ResetModel: the best state is loaded whatever the flag.
ResetModelBest(load_best, pkg) == pkg.best_state

\* self.model.load_state_dict(...), lines 132-135.
ResetModel(load_best, pkg) ==
    IF load_best THEN pkg.best_state ELSE pkg.model

\* A variant of ResetOptimizer: the stored state is loaded whatever the
\* optimizer configured now.
ResetOptimizerAnyKind(load_best, optim, pkg, opt) ==
    IF pkg.has_opt /\ ~load_best THEN pkg.optimizer ELSE opt

\* lines 136-137.
ResetOptimizer(load_best, optim, pkg, opt) ==
    IF pkg.has_opt /\ ~load_best /\ optim = "adam"
    THEN pkg.optimizer ELSE opt

\* lines 138-139.
ResetHistory(keep_history, pkg, h) ==
    IF keep_history THEN pkg.history ELSE h

\* line 140.
ResetBest(pkg) == [alias |-> FALSE, val |-> pkg.best_state]

\* ------------------------------------------------ process life cycle
\* What no step of a running Solver changes.
Frame == <<cfgs, args, alive, runs, last, loss_args, run, ac>>

InitWith(C) ==
    /\ cfgs = C
    /\ args = NoArgs
    /\ boot = [w \in Ranks |-> NoBoot]
    /\ alive = FALSE
    /\ runs = 0
    /\ fs = [p \in Paths |-> Absent]
    /\ pc = [w \in Ranks |-> "off"]
    /\ epoch = [w \in Ranks |-> 0]
    /\ nxt = [w \in Ranks |-> 0]
    /\ first = [w \in Ranks |-> 0]
    /\ i = [w \in Ranks |-> 0]
    /\ history = [w \in Ranks |-> <<>>]
    /\ model = [w \in Ranks |-> NoneState]
    /\ optimizer = [w \in Ranks |-> NoneState]
    /\ best_state = [w \in Ranks |-> NoBest]
    /\ valid_loss = [w \in Ranks |-> 0]
    /\ last = NoLast
    /\ loss_args = NoLossArgs
    /\ run = Idle
    /\ ac = NotBuilt

\* What is remembered of a launch when its processes are gone: how it
\* ended and where rank zero stood; and, for a reference launch (one that
\* trained at least one epoch, ran its budget to the end and wrote
\* checkpoints), the history and weights rank zero ended with.
LastOf(kind) ==
    LET ref == kind = "exit" /\ args.checkpoint /\ nxt[0] > first[0]
    IN [kind |-> kind, ref |-> ref, pc |-> pc[0], epoch |-> epoch[0],
        checkpoint |-> args.checkpoint, epochs |-> args.epochs,
        history |-> IF ref THEN history[0] ELSE <<>>,
        model |-> IF ref THEN model[0] ELSE NoneState]

\* The processes of the launch are gone; only the files stay.  kind tells
\* how: "exit" (train returned), "crash" (killed from outside) or "error"
\* (an exception of the program's own propagated).
Stop(kind) ==
    /\ alive' = FALSE
    /\ args' = NoArgs
    /\ boot' = [w \in Ranks |-> NoBoot]
    /\ pc' = [w \in Ranks |-> "off"]
    /\ epoch' = [w \in Ranks |-> 0]
    /\ nxt' = [w \in Ranks |-> 0]
    /\ first' = [w \in Ranks |-> 0]
    /\ i' = [w \in Ranks |-> 0]
    /\ history' = [w \in Ranks |-> <<>>]
    /\ model' = [w \in Ranks |-> NoneState]
    /\ optimizer' = [w \in Ranks |-> NoneState]
    /\ best_state' = [w \in Ranks |-> NoBest]
    /\ valid_loss' = [w \in Ranks |-> 0]
    /\ last' = LastOf(kind)
    /\ UNCHANGED <<cfgs, runs, fs, loss_args, run, ac>>

\* A launch: one process per rank, each running Solver.__init__ up to the
\* call of _reset (lines 30-80).
StartRun ==
    /\ ~alive
    /\ runs < MaxRuns
    /\ \E c \in cfgs :
        /\ args' = RunArgs(c)
        /\ boot' = [w \in Ranks |-> IF w < c.world THEN BootArgs(c) ELSE NoBoot]
        /\ pc' = [w \in Ranks |-> IF w < c.world THEN "reset" ELSE "off"]
        /\ model' = [w \in Ranks |-> IF w < c.world THEN InitModel ELSE NoneState]
        /\ optimizer' = [w \in Ranks |-> IF w < c.world THEN FreshOptim ELSE NoneState]
    /\ alive' = TRUE
    /\ runs' = runs + 1
    /\ epoch' = [w \in Ranks |-> 0]
    /\ history' = [w \in Ranks |-> <<>>]
    /\ best_state' = [w \in Ranks |-> NoBest]
    /\ last' = IF last.ref THEN last ELSE NoLast
    /\ UNCHANGED <<cfgs, fs, nxt, first, i, valid_loss, loss_args, run, ac>>

\* The launch ends: rank zero returned from train (exit), or the processes
\* are killed wherever they stand (crash).
Terminate ==
    /\ alive
    /\ Stop(IF \A w \in Workers : pc[w] = "done" THEN "exit" ELSE "crash")

\* _reset, lines 118-140: pick the package to load and load it.
Reset(w) ==
    /\ pc[w] = "reset"
    /\ LET lf   == LoadFrom(args, boot[w], fs)
           lb   == LoadBest(args, boot[w], fs)
           kh   == KeepHistory(args, boot[w], fs)
           file == ReadFile(fs, lf)
           pkg  == file.pkg
       IN IF lf = NoPath
          THEN /\ pc' = Upd(pc, w, "pretrained")
               /\ UNCHANGED <<Frame, boot, fs, epoch, nxt, first, i, history,
                              model, optimizer, best_state, valid_loss>>
          ELSE IF file.st # "complete" \/ (lb /\ pkg.best_state = NoneState)
          THEN Stop("error")      \* torch.load / load_state_dict raises
          ELSE /\ model' = Upd(model, w, ResetModel(lb, pkg))
               /\ optimizer' = Upd(optimizer, w,
                    ResetOptimizer(lb, args.optim, pkg, optimizer[w]))
               /\ history' = Upd(history, w, ResetHistory(kh, pkg, history[w]))
               /\ best_state' = Upd(best_state, w, ResetBest(pkg))
               /\ pc' = Upd(pc, w, "pretrained")
               /\ UNCHANGED <<Frame, boot, fs, epoch, nxt, first, i,
                              valid_loss>>

\* A variant of ResetPretrained: the pretrained weights are loaded first
\* and the weights of a loaded package overwrite them.
ResetPretrainedFirst(w) ==
    /\ pc[w] = "pretrained"
    /\ model' = IF boot[w].continue_pretrained
                   /\ LoadFrom(args, boot[w], fs) = NoPath
                THEN Upd(model, w, Pretrained) ELSE model
    /\ pc' = Upd(pc, w, "train_entry")
    /\ UNCHANGED <<Frame, boot, fs, epoch, nxt, first, i, history, optimizer,
                   best_state, valid_loss>>

\* _reset, lines 142-146: the pretrained weights overwrite the model's.
ResetPretrained(w) ==
    /\ pc[w] = "pretrained"
    /\ model' = IF boot[w].continue_pretrained
                THEN Upd(model, w, Pretrained) ELSE model
    /\ pc' = Upd(pc, w, "train_entry")
    /\ UNCHANGED <<Frame, boot, fs, epoch, nxt, first, i, history, optimizer,
                   best_state, valid_loss>>

\* ------------------------------------------------ the checkpoint writers
\* A variant of Package: the history as it was before the last append.
PackageStale(w) ==
    [model |-> model[w],
     optim |-> args.optim,
     has_opt |-> args.optim = "adam",
     optimizer |-> IF args.optim = "adam" THEN optimizer[w] ELSE NoneState,
     history |-> IF history[w] = <<>> THEN <<>>
                 ELSE SubSeq(history[w], 1, Len(history[w]) - 1),
     best_state |-> BestVal(w)]

\* The package both writers build (lines 83-89 and 104-110).
Package(w) ==
    [model |-> model[w],
     optim |-> args.optim,
     has_opt |-> args.optim = "adam",
     optimizer |-> IF args.optim = "adam" THEN optimizer[w] ELSE NoneState,
     history |-> history[w],
     best_state |-> BestVal(w)]

\* A variant of TmpPath: torch.save writes straight to the final path.
TmpPathDirect(p) == p

\* tmp_path of _serialize: str(path) + ".tmp" (lines 90 and 99).
TmpPath(p) == IF p = CheckpointFile THEN CheckpointTmp ELSE BestTmp

\* A variant of Rename: the rename is left out.
RenameMissing(f, src, dst) == f

\* os.rename(src, dst) on a source that exists.
Rename(f, src, dst) ==
    IF src = dst THEN f ELSE [f EXCEPT ![dst] = f[src], ![src] = Absent]

\* The file save_ckpts writes: "./checkpoints/checkpoint_epoch_%d.pt" %
\* (self.epoch + 1), line 114.
SaveCkptsPath(w) == NamedCkpt(epoch[w] + 1)

\* save_ckpts up to the start of torch.save (lines 104-114): the directory
\* is made, and the named file is opened for writing if save_checkpoints.
SaveCkptsBegin(w, writing, skipped) ==
    /\ fs' = [fs EXCEPT ![CkptDir] = Complete(EmptyPkg),
                        ![SaveCkptsPath(w)] =
                            IF args.save_checkpoints THEN Partial ELSE @]
    /\ pc' = Upd(pc, w, IF args.save_checkpoints THEN writing ELSE skipped)
    /\ UNCHANGED <<Frame, boot, epoch, nxt, first, i, history, model, optimizer,
                   best_state, valid_loss>>

\* torch.save of save_ckpts returns: the named file is complete.
SaveCkptsEnd(w, after) ==
    /\ fs' = [fs EXCEPT ![SaveCkptsPath(w)] = Complete(EmptyPkg)]
    /\ pc' = Upd(pc, w, after)
    /\ UNCHANGED <<Frame, boot, epoch, nxt, first, i, history, model, optimizer,
                   best_state, valid_loss>>

\* torch.save(x, tmp_path) of _serialize starts: the file is opened.
TmpBegin(w, target, writing) ==
    /\ fs' = [fs EXCEPT ![TmpPath(target)] = Partial]
    /\ pc' = Upd(pc, w, writing)
    /\ UNCHANGED <<Frame, boot, epoch, nxt, first, i, history, model, optimizer,
                   best_state, valid_loss>>

\* torch.save(x, tmp_path) returns: the file holds all of x.
TmpEnd(w, target, content, after) ==
    /\ fs' = [fs EXCEPT ![TmpPath(target)] = Complete(content)]
    /\ pc' = Upd(pc, w, after)
    /\ UNCHANGED <<Frame, boot, epoch, nxt, first, i, history, model, optimizer,
                   best_state, valid_loss>>

\* os.rename(tmp_path, target); FileNotFoundError if the source is gone.
TmpRename(w, target, after) ==
    IF fs[TmpPath(target)].st = "absent"
    THEN Stop("error")
    ELSE /\ fs' = Rename(fs, TmpPath(target), target)
         /\ pc' = Upd(pc, w, after)
         /\ UNCHANGED <<Frame, boot, epoch, nxt, first, i, history, model,
                        optimizer, best_state, valid_loss>>

\* Where _serialize returns to: train returns right after it when
\* save_again is set (lines 149-151), else the epoch loop goes on.
AfterSerialize == IF args.save_again THEN "done" ELSE "loop"

\* _serialize, lines 83-91.
SerTmpBegin(w) == pc[w] = "ser_tmp" /\ TmpBegin(w, CheckpointFile, "ser_tmp_w")
SerTmpEnd(w) ==
    pc[w] = "ser_tmp_w" /\ TmpEnd(w, CheckpointFile, Package(w), "ser_rename")
\* line 94.
SerRename(w) == pc[w] = "ser_rename" /\ TmpRename(w, CheckpointFile, "best_tmp")
\* lines 97-100.
BestTmpBegin(w) == pc[w] = "best_tmp" /\ TmpBegin(w, BestFile, "best_tmp_w")
BestTmpEnd(w) ==
    pc[w] = "best_tmp_w" /\ TmpEnd(w, BestFile, EmptyPkg, "best_rename")
\* line 101.
BestRename(w) ==
    pc[w] = "best_rename" /\ TmpRename(w, BestFile, AfterSerialize)

\* ------------------------------------------------------- Solver.train
\* train, lines 149-162: save_again serializes and returns; otherwise the
\* range of the epoch loop is fixed from len(self.history).
TrainEntry(w) ==
    /\ pc[w] = "train_entry"
    /\ IF args.save_again
       THEN IF args.checkpoint
            THEN /\ pc' = Upd(pc, w, "ser_tmp")
                 /\ boot' = Upd(boot, w, NoBoot)
                 /\ UNCHANGED <<Frame, fs, epoch, nxt, first, i, history,
                                model, optimizer, best_state, valid_loss>>
            ELSE Stop("error")   \* self.checkpoint_file was never set
       ELSE /\ first' = Upd(first, w, Len(history[w]))
            /\ nxt' = Upd(nxt, w, Len(history[w]))
            /\ pc' = Upd(pc, w, "loop")
            /\ UNCHANGED <<Frame, boot, fs, epoch, i, history, model,
                           optimizer, best_state, valid_loss>>

\* A variant of LoopNext: the loop also runs the epoch index args.epochs.
LoopNextInclusive(w) ==
    /\ pc[w] = "loop"
    /\ IF nxt[w] <= args.epochs
       THEN /\ epoch' = Upd(epoch, w, nxt[w])
            /\ nxt' = Upd(nxt, w, nxt[w] + 1)
            /\ i' = Upd(i, w, 0)
            /\ boot' = Upd(boot, w, NoBoot)
            /\ pc' = Upd(pc, w, "batch")
       ELSE /\ pc' = Upd(pc, w, "done")
            /\ UNCHANGED <<epoch, nxt, i, boot>>
    /\ UNCHANGED <<Frame, fs, first, history, model, optimizer, best_state,
                   valid_loss>>

\* for epoch in range(len(self.history), self.epochs): lines 162-170, up
\* to the first batch of the training pass.  Nothing reads the construction
\* options after _reset: the model forgets them once work starts.
LoopNext(w) ==
    /\ pc[w] = "loop"
    /\ IF nxt[w] < args.epochs
       THEN /\ epoch' = Upd(epoch, w, nxt[w])
            /\ nxt' = Upd(nxt, w, nxt[w] + 1)
            /\ i' = Upd(i, w, 0)
            /\ boot' = Upd(boot, w, NoBoot)
            /\ pc' = Upd(pc, w, "batch")
       ELSE /\ pc' = Upd(pc, w, "done")
            /\ UNCHANGED <<epoch, nxt, i, boot>>
    /\ UNCHANGED <<Frame, fs, first, history, model, optimizer, best_state,
                   valid_loss>>

\* -------------------------------------- Solver._run_one_epoch (training)
\* (i+1) % 1000 == 0, line 259.
SaveDue(idx) == (idx + 1) % SaveEvery = 0

\* The next batch index at which the loop does more than an optimizer
\* step: the next one where a checkpoint is due, or the end of the loader.
NextStop(idx, n) ==
    LET due == ((idx + 1) \div SaveEvery) * SaveEvery + SaveEvery - 1
    IN IF due < n THEN due ELSE n

\* The batches from i up to the next stop, lines 261-319 for each: forward,
\* loss, zero_grad, backward, step.
TrainBatches(w) ==
    /\ pc[w] = "batch"
    /\ i[w] < args.tr_len
    /\ ~SaveDue(i[w])
    /\ LET j == NextStop(i[w], args.tr_len)
       IN /\ model' = Upd(model, w, OptimStep(model[w], j - i[w]))
          /\ optimizer' = Upd(optimizer, w, OptimStep(optimizer[w], j - i[w]))
          /\ i' = Upd(i, w, j)
          /\ pc' = Upd(pc, w, IF j = args.tr_len THEN "avg_train" ELSE "batch")
    /\ UNCHANGED <<Frame, boot, fs, epoch, nxt, first, history, best_state,
                   valid_loss>>

\* lines 259-260: the mid-epoch save_ckpts, on every rank.
MidSave(w) ==
    /\ pc[w] = "batch"
    /\ i[w] < args.tr_len
    /\ SaveDue(i[w])
    /\ SaveCkptsBegin(w, "mid_ckpt_w", "step")

MidSaveEnd(w) == pc[w] = "mid_ckpt_w" /\ SaveCkptsEnd(w, "step")

\* The batch a mid-epoch checkpoint preceded, lines 261-319.
StepBatch(w) ==
    /\ pc[w] = "step"
    /\ model' = Upd(model, w, OptimStep(model[w], 1))
    /\ optimizer' = Upd(optimizer, w, OptimStep(optimizer[w], 1))
    /\ i' = Upd(i, w, i[w] + 1)
    /\ pc' = Upd(pc, w, IF i[w] + 1 = args.tr_len THEN "avg_train" ELSE "batch")
    /\ UNCHANGED <<Frame, boot, fs, epoch, nxt, first, history, best_state,
                   valid_loss>>

\* distrib.average is a collective reduction: it returns on a worker once
\* every worker of the launch has called it.
Arrived(p) == \A w \in Workers : pc[w] = p

\* distrib.average at the end of the training pass (lines 321-323).
\* Without a validation loader valid_loss = 0 (line 206).
AverageTrain ==
    /\ alive
    /\ Arrived("avg_train")
    /\ pc' = [w \in Ranks |-> IF w \in Workers
                              THEN (IF args.cv_loader THEN "valid" ELSE "end_epoch")
                              ELSE pc[w]]
    /\ valid_loss' = [w \in Ranks |-> IF w \in Workers /\ ~args.cv_loader
                                      THEN 0 ELSE valid_loss[w]]
    /\ UNCHANGED <<Frame, boot, fs, epoch, nxt, first, i, history, model,
                   optimizer, best_state>>

\* lines 188-190: the validation pass, no step of the optimizer.
ValidPass(w) ==
    /\ pc[w] = "valid"
    /\ pc' = Upd(pc, w, "avg_valid")
    /\ UNCHANGED <<Frame, boot, fs, epoch, nxt, first, i, history, model,
                   optimizer, best_state, valid_loss>>

\* distrib.average at the end of the validation pass: every worker gets
\* the same averaged loss.
AverageValid ==
    /\ alive
    /\ Arrived("avg_valid")
    /\ \E v \in Losses :
         valid_loss' = [w \in Ranks |-> IF w \in Workers THEN v ELSE valid_loss[w]]
    /\ pc' = [w \in Ranks |-> IF w \in Workers THEN "end_epoch" ELSE pc[w]]
    /\ UNCHANGED <<Frame, boot, fs, epoch, nxt, first, i, history, model,
                   optimizer, best_state>>

\* ------------------------------------------- train, the end of an epoch
\* A variant of BestLoss: the epoch's own loss is left out of the minimum.
BestLossPrevious(h, v) == IF h = <<>> THEN v ELSE Min(pull_metric(h))

\* line 208.
BestLoss(h, v) == Min(pull_metric(h) \cup {v})

\* A variant of IsNewBest: a strict comparison.
IsNewBestStrict(v, best) == v < best

\* line 211.
IsNewBest(v, best) == v = best

\* A variant of DoEval: the last epoch is not evaluated for its own sake.
DoEvalEveryOnly(e, a) == (e + 1) % a.eval_every = 0 /\ a.tt_loader

\* line 217.
DoEval(e, a) ==
    ((e + 1) % a.eval_every = 0 \/ e = a.epochs - 1) /\ a.tt_loader

\* The training loss of the record: its value plays no part here.
TrainLoss == 0

\* lines 209 and 226.  eval tells whether pesq and stoi are keys of the
\* record.  Three fields are not keys of the record, they remember what
\* happened in the epoch: snap the weights it ended with; evalw the
\* weights handed to evaluate and enhance (self.model, lines 224 and 231);
\* evalbest what self.best_state held when they ran, after line 213.
Metrics(w) ==
    LET ev == DoEval(epoch[w], args)
        nb == IsNewBest(valid_loss[w], BestLoss(history[w], valid_loss[w]))
    IN [train |-> TrainLoss, valid |-> valid_loss[w],
        best |-> BestLoss(history[w], valid_loss[w]),
        eval |-> ev, snap |-> model[w],
        evalw |-> IF ev THEN model[w] ELSE NoneState,
        evalbest |-> IF ~ev THEN NoneState
                     ELSE IF nb THEN model[w] ELSE BestVal(w)]

\* lines 208-233: best loss, best state, evaluation, the record appended.
EndEpoch(w) ==
    /\ pc[w] = "end_epoch"
    /\ best_state' =
         IF IsNewBest(valid_loss[w], BestLoss(history[w], valid_loss[w]))
         THEN Upd(best_state, w, copy_state(model[w]))
         ELSE best_state
    /\ history' = Upd(history, w, Append(history[w], Metrics(w)))
    /\ pc' = Upd(pc, w, IF w = 0 THEN "hist_write" ELSE "loop")
    /\ UNCHANGED <<Frame, boot, fs, epoch, nxt, first, i, model, optimizer,
                   valid_loss>>

\* lines 238-241, rank zero: json.dump of the history.
WriteHistory(w) ==
    /\ pc[w] = "hist_write"
    /\ fs' = [fs EXCEPT ![HistoryFile] = Complete(EmptyPkg)]
    /\ pc' = Upd(pc, w, IF args.checkpoint THEN "end_ckpt" ELSE "loop")
    /\ UNCHANGED <<Frame, boot, epoch, nxt, first, i, history, model, optimizer,
                   best_state, valid_loss>>

\* line 242.
EndSave(w) == pc[w] = "end_ckpt" /\ SaveCkptsBegin(w, "end_ckpt_w", "ser_tmp")
EndSaveEnd(w) == pc[w] = "end_ckpt_w" /\ SaveCkptsEnd(w, "ser_tmp")

\* ------------------------- Solver._run_one_epoch, batch by batch
\* The enhancement-loss kinds line 272-277 know, and the kinds given here.
LossKinds == {"l1", "l2", "huber"}
LossKindInputs == LossKinds \cup {"l3"}

\* The options the loss composition reads (lines 271-305).
LossConfigSet ==
    [loss : LossKindInputs, stft_loss : BOOLEAN, stft_loss_weight : {2},
     acoustic_loss : BOOLEAN, ac_loss_weight : {3},
     acoustic_loss_only : BOOLEAN, gradient_clip : BOOLEAN]

\* The lengths of the loaders followed batch by batch.
PassLengths == (0 .. MaxBatches) \cup {SaveEvery}

\* F.l1_loss, F.mse_loss, F.smooth_l1_loss (lines 273-277) of a clean and
\* an estimate at distance d, in halves: smooth_l1 is d*d/2 below 1 and
\* d - 1/2 from 1 on.
EnhDistance(kind, d) ==
    IF kind = "l1" THEN 2 * d
    ELSE IF kind = "l2" THEN 2 * d * d
    ELSE IF d < 1 THEN d * d ELSE 2 * d - 1

\* A variant of TotalLoss: the acoustic loss is left out.
TotalLossEnhOnly(enh, acv) == enh

\* loss = enh_loss + ac_loss, line 286.
TotalLoss(enh, acv) == enh + acv

\* A variant of KindKnown: every kind is accepted.
KindKnownAny(kind) == TRUE

\* lines 272-279: the kind is one of the three.
KindKnown(kind) == kind \in LossKinds

\* lines 271-298 for one batch: d the distance of clean and estimate, t the
\* multi-resolution STFT term (sc_loss + mag_loss), a and g what the
\* acoustic loss works on.  err names the exception raised, if any.
BatchLoss(la, o, d, t, a, g) ==
    LET r    == Call(o, a, g)
        acv  == la.ac_loss_weight * r.value
        enh  == EnhDistance(la.loss, d)
                  + (IF la.stft_loss THEN la.stft_loss_weight * t ELSE 0)
        eops == <<"enh_loss">> \o (IF la.stft_loss THEN <<"stft_loss">> ELSE <<>>)
        Res(err, ops, e, c, raw, l, obj) ==
            [err |-> err, ops |-> ops, enh |-> e, ac |-> c, raw |-> raw,
             loss |-> l, obj |-> obj]
    IN IF ~la.acoustic_loss_only
       THEN IF ~KindKnown(la.loss)
            THEN Res("loss", <<>>, 0, 0, 0, 0, o)
            ELSE IF la.acoustic_loss
            THEN IF r.ok
                 THEN Res("none", eops \o <<"ac_loss">>, enh, acv, r.value,
                          TotalLoss(enh, acv), r.obj)
                 ELSE Res("ac_loss", eops \o <<"ac_loss">>, 0, 0, 0, 0, r.obj)
            ELSE Res("none", eops, enh, 0, 0, enh, o)
       ELSE IF ~la.acoustic_loss
            THEN Res("acoustic_only", <<>>, 0, 0, 0, 0, o)
            ELSE IF r.ok
            THEN Res("none", <<"ac_loss">>, 0, acv, r.value, acv, r.obj)
            ELSE Res("ac_loss", <<"ac_loss">>, 0, 0, 0, 0, r.obj)

\* A variant of OptimOps: the optimizer is stepped in every pass.
OptimOpsEveryPass(cross_valid, clip) ==
    <<"zero_grad", "backward">> \o (IF clip THEN <<"clip">> ELSE <<>>)
        \o <<"step">>

\* lines 301-308.
OptimOps(cross_valid, clip) ==
    IF cross_valid THEN <<>>
    ELSE <<"zero_grad", "backward">> \o (IF clip THEN <<"clip">> ELSE <<>>)
             \o <<"step">>

\* lines 257-267: the batch is fetched, save_ckpts is called when due in
\* a training pass, the batch is augmented in a training pass and run
\* through the model.
FetchOps(cross_valid, idx) ==
    <<"fetch">>
      \o (IF SaveDue(idx) /\ ~cross_valid THEN <<"save_ckpts">> ELSE <<>>)
      \o (IF ~cross_valid THEN <<"augment">> ELSE <<>>)
      \o <<"forward">>

\* op is one of the operations in the sequence ops.
Has(ops, op) == \E k \in 1 .. Len(ops) : ops[k] = op

\* What the steps of one followed call leave alone.
PassFrame == <<cfgs, args, boot, alive, runs, pc, epoch, nxt, i, history,
               best_state, valid_loss, first, last, loss_args>>

\* AcousticLoss(...), as in Solver.__init__ lines 76-77.
AcConstruct ==
    /\ ~ac.built
    /\ \E t \in AcTypeInputs : ac' = AcousticInit(t)
    /\ UNCHANGED <<PassFrame, fs, model, optimizer, run>>

\* A caller other than the Solver calls the acoustic loss with a mode.
AcForward ==
    /\ ac.built /\ run.pc = "idle"
    /\ \E mode \in ModeInputs, a \in 0 .. MaxDiff, g \in 1 .. MaxGain :
         ac' = Forward(ac, mode, a, g).obj
    /\ UNCHANGED <<PassFrame, fs, model, optimizer, run>>

\* _run_one_epoch is called, lines 246-256, as train calls it: after
\* self.model.train() for the training pass (lines 165-166), after
\* self.model.eval() for the validation pass (lines 188-190).  The
\* acoustic loss is a field of the Solver, not a part of self.model: its
\* estimator keeps its mode.
BeginPass ==
    /\ ac.built /\ run.pc = "idle"
    /\ \E cv \in BOOLEAN, n \in PassLengths :
         run' = [Idle EXCEPT !.pc = "loop", !.cross_valid = cv, !.n = n,
                             !.model0 = model[0], !.optim0 = optimizer[0],
                             !.model_training = ~cv]
    /\ UNCHANGED <<PassFrame, fs, model, optimizer, ac>>

\* One pass of the loop body, lines 257-319; in a loader longer than
\* MaxBatches, the like batches up to the next index where save_ckpts is
\* due are taken together.
RunBatch ==
    /\ run.pc = "loop" /\ run.i < run.n
    /\ \E d \in 0 .. MaxDiff, t \in 0 .. MaxDiff, a \in 0 .. MaxDiff,
          g \in 1 .. MaxGain :
         LET k   == IF run.n <= MaxBatches THEN 1
                    ELSE NextStop(run.i, run.n) - run.i
             r   == BatchLoss(loss_args, ac, d, t, a, g)
             ops == FetchOps(run.cross_valid, run.i) \o r.ops
                      \o (IF r.err = "none"
                          THEN OptimOps(run.cross_valid, loss_args.gradient_clip)
                          ELSE <<>>)
             st  == IF Has(ops, "step") THEN k ELSE 0
             sv  == Has(ops, "save_ckpts")
         IN /\ ac' = r.obj
            /\ fs' = IF sv /\ args.save_checkpoints
                     THEN [fs EXCEPT ![SaveCkptsPath(0)] = Complete(Package(0))]
                     ELSE fs
            /\ model' = Upd(model, 0, OptimStep(model[0], st))
            /\ optimizer' = Upd(optimizer, 0, OptimStep(optimizer[0], st))
            /\ run' =
                 IF r.err # "none"
                 THEN [run EXCEPT !.pc = "raised", !.err = r.err, !.ops = ops,
                                  !.saves = @ + (IF sv THEN 1 ELSE 0)]
                 ELSE [run EXCEPT
                         !.i = @ + k, !.ops = ops,
                         !.batch = [loss |-> r.loss, enh |-> r.enh,
                                    ac |-> r.ac, raw |-> r.raw, d |-> d],
                         !.total_loss = @ + k * r.loss,
                         !.total_enhancement_loss = @ + k * r.enh,
                         !.total_acoustic_loss = @ + k * r.ac,
                         !.steps = @ + st,
                         !.saves = @ + (IF sv THEN 1 ELSE 0)]
    /\ UNCHANGED PassFrame

\* lines 321-325: the averages are returned; with an empty loader the loop
\* variable i was never bound and line 321 raises.
EndPass ==
    /\ run.pc = "loop" /\ run.i = run.n
    /\ run' = IF run.n = 0
              THEN [run EXCEPT !.pc = "raised", !.err = "unbound"]
              ELSE [run EXCEPT
                      !.pc = "returned",
                      !.ret = [n |-> run.i, total_loss |-> run.total_loss,
                               total_enhancement_loss |-> run.total_enhancement_loss,
                               total_acoustic_loss |-> run.total_acoustic_loss]]
    /\ UNCHANGED <<PassFrame, fs, model, optimizer, ac>>

\* A Solver of one worker, constructed fresh, whose _run_one_epoch is
\* called once; the options of the loss composition vary.
PassArgs ==
    [world |-> 1, checkpoint |-> TRUE, optim |-> "adam", save_again |-> FALSE,
     save_checkpoints |-> TRUE, epochs |-> 1, cv_loader |-> TRUE,
     tt_loader |-> FALSE, eval_every |-> 1, tr_len |-> 1]

InitLoss ==
    /\ cfgs = {}
    /\ args = PassArgs
    /\ boot = [w \in Ranks |-> NoBoot]
    /\ alive = FALSE
    /\ runs = 0
    /\ fs = [p \in Paths |-> Absent]
    /\ pc = [w \in Ranks |-> "off"]
    /\ epoch = [w \in Ranks |-> 0]
    /\ nxt = [w \in Ranks |-> 0]
    /\ first = [w \in Ranks |-> 0]
    /\ i = [w \in Ranks |-> 0]
    /\ history = [w \in Ranks |-> <<>>]
    /\ model = [w \in Ranks |-> IF w = 0 THEN InitModel ELSE NoneState]
    /\ optimizer = [w \in Ranks |-> IF w = 0 THEN FreshOptim ELSE NoneState]
    /\ best_state = [w \in Ranks |-> NoBest]
    /\ valid_loss = [w \in Ranks |-> 0]
    /\ last = NoLast
    /\ loss_args \in LossConfigSet
    /\ run = Idle
    /\ ac = NotBuilt

NextLoss ==
    \/ AcConstruct
    \/ AcForward
    \/ BeginPass
    \/ RunBatch
    \/ EndPass

SpecLoss == InitLoss /\ [][NextLoss]_vars

\* ------------------------------------------------------ specification
\* A step of the program itself, in some worker or in all of them.
Step ==
    \/ AverageTrain
    \/ AverageValid
    \/ \E w \in Ranks :
         \/ Reset(w)
         \/ ResetPretrained(w)
         \/ TrainEntry(w)
         \/ LoopNext(w)
         \/ TrainBatches(w)
         \/ MidSave(w)
         \/ MidSaveEnd(w)
         \/ StepBatch(w)
         \/ ValidPass(w)
         \/ EndEpoch(w)
         \/ WriteHistory(w)
         \/ EndSave(w)
         \/ EndSaveEnd(w)
         \/ SerTmpBegin(w)
         \/ SerTmpEnd(w)
         \/ SerRename(w)
         \/ BestTmpBegin(w)
         \/ BestTmpEnd(w)
         \/ BestRename(w)

\* The program's steps, a launch, or the end of one.
Next ==
    \/ StartRun
    \/ Terminate
    \/ Step

Init == InitWith(MainConfigs)

Spec == Init /\ [][Next]_vars

InitDist == InitWith(DistConfigs)

SpecDist == InitDist /\ [][Next]_vars

\* A process that can take a step takes one sooner or later; being killed
\* and being launched again are not forced.
InitEval == InitWith(EvalConfigs)

SpecEval == InitEval /\ [][Next]_vars

InitLoop == InitWith(LoopConfigs)

SpecFair == InitLoop /\ [][Next]_vars /\ WF_vars(Step)

\* ================================================================ claims
\* Positions of train at which the record of the current epoch has been
\* appended, or no epoch is in progress.
AfterEpochPcs ==
    {"loop", "hist_write", "end_ckpt", "end_ckpt_w", "ser_tmp", "ser_tmp_w",
     "ser_rename", "best_tmp", "best_tmp_w", "best_rename", "done"}

\* Positions of the training pass of an epoch.
TrainPcs == {"batch", "mid_ckpt_w", "step", "avg_train"}

\* Positions at which an epoch is in progress (steps 1-5 of the loop body).
EpochPcs ==
    TrainPcs \cup {"valid", "avg_valid", "end_epoch", "hist_write",
                   "end_ckpt", "end_ckpt_w", "ser_tmp", "ser_tmp_w",
                   "ser_rename", "best_tmp", "best_tmp_w", "best_rename"}

MinValid(h) == Min({h[k].valid : k \in 1 .. Len(h)})

\* best of every record is the minimum of the valid losses up to it.
RunningMin(h) ==
    \A k \in 1 .. Len(h) : h[k].best = Min({h[j].valid : j \in 1 .. k})

\* The most recent epoch (1-based) whose valid loss is the minimum.
LastBest(h) ==
    CHOOSE k \in 1 .. Len(h) :
        /\ h[k].valid = MinValid(h)
        /\ \A j \in (k + 1) .. Len(h) : h[j].valid # MinValid(h)

\* C1: after every epoch of train, started from an empty or a loaded
\* history, the history has one record per completed epoch (as many as
\* the epoch loop has started), and every record's best is the minimum of
\* the valid losses of the records up to it.
C1_HistoryInvariant ==
    \A w \in Ranks :
        (alive /\ w \in Workers /\ ~args.save_again /\ pc[w] \in AfterEpochPcs)
            => /\ Len(history[w]) = nxt[w]
               /\ RunningMin(history[w])

\* C1 witness: a launch resumed from a one-epoch history has appended a
\* second record with a lower valid loss.
C1_Witness ==
    /\ alive /\ pc[0] = "hist_write" /\ first[0] = 1
    /\ Len(history[0]) = 2
    /\ history[0][2].valid < history[0][1].valid

\* C2: whenever the history is not empty, best_state is a detached
\* snapshot equal to the weights at the end of the most recent epoch whose
\* valid loss is the minimum of the history; training later epochs does
\* not change it.
C2_BestState ==
    \A w \in Ranks :
        (alive /\ w \in Workers /\ Len(history[w]) > 0)
            => /\ ~best_state[w].alias
               /\ BestVal(w) = history[w][LastBest(history[w])].snap

\* C2 witness: the second epoch was worse than the first, so best_state
\* still holds the first epoch's weights although the model moved on.
C2_Witness ==
    /\ alive /\ pc[0] = "end_ckpt" /\ Len(history[0]) = 2
    /\ history[0][2].valid > history[0][1].valid
    /\ BestVal(0) = history[0][1].snap
    /\ model[0] # BestVal(0)

\* A Solver of rank zero that resumed from the checkpoint of a reference
\* launch, with that launch's epoch budget, and has run no epoch yet.
ResumedAtBudget ==
    /\ alive /\ pc[0] \in {"train_entry", "loop", "done"}
    /\ boot[0].given /\ last.ref
    /\ UseCheckpoint(args, boot[0], fs)
    /\ args.epochs = last.epochs

\* C3 as stated: resuming from the checkpoint of a finished N-epoch run
\* with budget N gives the history and weights that run ended with.
C3_ResumeIdempotent ==
    ResumedAtBudget => (history[0] = last.history /\ model[0] = last.model)

\* C3 amended: the same, provided no pretrained model is named at the
\* resume (its weights would overwrite the loaded ones).
C3_ResumeIdempotentNoPretrained ==
    (ResumedAtBudget /\ ~boot[0].continue_pretrained)
        => (history[0] = last.history /\ model[0] = last.model)

\* C3 witness: such a resume has returned from train without an epoch.
C3_Witness ==
    /\ ResumedAtBudget /\ ~boot[0].continue_pretrained
    /\ pc[0] = "done" /\ Len(history[0]) = MaxEpochs

C5_NoPartialCheckpointLeft ==
    ~alive => \A p \in CheckpointPaths : fs[p].st # "partial"

\* C6 as stated: a step of a worker of rank other than zero never changes
\* the history file or a checkpoint file.
C6_OnlyRankZeroWrites ==
    [][\A w \in Ranks \ {0} :
          (pc'[w] # pc[w] /\ pc'[0] = pc[0])
              => \A p \in CheckpointPaths \cup {HistoryFile} : fs'[p] = fs[p]]_vars

\* The checkpoint write of the epoch that made the history n records long
\* has completed: both files are in place.
CheckpointWritten(n) ==
    /\ fs[CheckpointFile].st = "complete"
    /\ Len(fs[CheckpointFile].pkg.history) >= n
    /\ fs[BestFile].st = "complete"

\* Worker w is in the training pass of an epoch that follows an epoch of
\* the same launch.
TrainsNextEpoch(w) ==
    /\ alive /\ w \in Workers /\ args.checkpoint
    /\ pc[w] \in TrainPcs /\ epoch[w] > first[w]

\* C7 as stated: no worker is in the training pass of epoch N+1 before
\* the checkpoint write of epoch N has completed.
C7_NextEpochAfterCheckpoint ==
    \A w \in Ranks : TrainsNextEpoch(w) => CheckpointWritten(epoch[w])

\* C7 amended: the worker of rank zero, which writes the checkpoint, is
\* never in the training pass of epoch N+1 before that write completed.
C7_RankZeroAfterCheckpoint ==
    TrainsNextEpoch(0) => CheckpointWritten(epoch[0])

\* C7 witness: rank zero of a two-worker launch trains a second epoch.
C7_Witness == TrainsNextEpoch(0) /\ args.world = 2

\* C8: a checkpointing launch terminated while epoch e >= 1 was in
\* progress on rank zero leaves a checkpoint file whose history has e or
\* e + 1 records.
C8_LosesAtMostOneEpoch ==
    (/\ ~alive /\ last.kind = "crash" /\ last.checkpoint
     /\ last.pc \in EpochPcs /\ last.epoch >= 1)
        => /\ fs[CheckpointFile].st = "complete"
           /\ Len(fs[CheckpointFile].pkg.history) \in {last.epoch, last.epoch + 1}

\* C8 witness: terminated between the history-file write and the rename
\* of the checkpoint, in an epoch e >= 1.
C8_Witness ==
    /\ ~alive /\ last.kind = "crash" /\ last.checkpoint
    /\ last.pc = "ser_rename" /\ last.epoch >= 1
    /\ Len(fs[CheckpointFile].pkg.history) = last.epoch

\* Rank zero has run lines 118-140 of _reset and not yet lines 142-146.
Loaded == alive /\ pc[0] = "pretrained"

\* C9: with checkpointing on, the checkpoint file present and no restart,
\* _reset loads the latest weights and the whole history of that file,
\* also when a continue-from path is given; with checkpointing on, a
\* restart or no file, and no continue-from path, the Solver is fresh.
C9_ResumePriority ==
    /\ (Loaded /\ args.checkpoint /\ fs[CheckpointFile].st = "complete"
              /\ ~boot[0].restart)
          => /\ model[0] = fs[CheckpointFile].pkg.model
             /\ history[0] = fs[CheckpointFile].pkg.history
    /\ (Loaded /\ args.checkpoint /\ ~boot[0].continue_from
              /\ (boot[0].restart \/ fs[CheckpointFile].st = "absent"))
          => /\ history[0] = <<>>
             /\ BestVal(0) = NoneState
             /\ model[0] = InitModel
             /\ optimizer[0] = FreshOptim

\* C9 witness: a checkpoint with a history was loaded although a
\* continue-from path was given.
C9_Witness ==
    /\ Loaded /\ args.checkpoint /\ ~boot[0].restart
    /\ boot[0].continue_from /\ Len(history[0]) > 0

\* Rank zero is being constructed from the continue-from package.
External ==
    /\ alive /\ boot[0].given /\ boot[0].continue_from
    /\ ~UseCheckpoint(args, boot[0], fs)

\* The weights the continue-from package gives: best or latest.
ExtWeights == IF boot[0].continue_best THEN ExtPkg.best_state ELSE ExtPkg.model

\* C10 as stated: from the continue-from package only the weights are
\* taken; history stays empty, training starts at epoch 0, and neither
\* optimizer state nor best state comes from the package.
C10_ExternalModelOnly ==
    /\ (External /\ pc[0] = "pretrained")
          => /\ model[0] = ExtWeights
             /\ history[0] = <<>>
             /\ optimizer[0] = FreshOptim
             /\ BestVal(0) = NoneState
    /\ (External /\ pc[0] = "loop") => first[0] = 0

\* C10 amended: the weights are taken as stated, history stays empty and
\* training starts at epoch 0; best_state is the package's best state;
\* and the optimizer state is the package's when the latest weights are
\* loaded, the optimizer is adam and the package holds one.
C10_ExternalLoad ==
    /\ (External /\ pc[0] = "pretrained")
          => /\ model[0] = ExtWeights
             /\ history[0] = <<>>
             /\ optimizer[0] =
                   IF ~boot[0].continue_best /\ args.optim = "adam"
                      /\ ExtPkg.has_opt
                   THEN ExtPkg.optimizer ELSE FreshOptim
             /\ BestVal(0) = ExtPkg.best_state
    /\ (External /\ pc[0] = "loop") => first[0] = 0

\* C10 witness: the latest weights and the optimizer state of the
\* continue-from package were loaded over a stale checkpoint (restart).
C10_Witness ==
    /\ External /\ pc[0] = "pretrained" /\ ~boot[0].continue_best
    /\ args.optim = "adam" /\ optimizer[0] = ExtPkg.optimizer
    /\ fs[CheckpointFile].st = "complete"

\* The package _reset of rank zero loads, if any.
LoadedPkg == ReadFile(fs, LoadFrom(args, boot[0], fs)).pkg

\* C11: a step of _reset that loads a package changes the optimizer state
\* only when the optimizer kind stored with the package (its args) equals
\* the kind configured now; when the kinds differ the step raises nothing,
\* leaves the optimizer as constructed and still loads the weights.
C11_OptimizerKind ==
    [][(/\ alive /\ pc[0] = "reset" /\ pc'[0] # "reset"
        /\ last'.kind # "crash"
        /\ LoadFrom(args, boot[0], fs) # NoPath)
          => /\ optimizer'[0] # optimizer[0] => LoadedPkg.optim = args.optim
             /\ LoadedPkg.optim # args.optim
                   => /\ alive' /\ pc'[0] = "pretrained"
                      /\ optimizer'[0] = optimizer[0]
                      /\ model'[0] = IF LoadBest(args, boot[0], fs)
                                     THEN LoadedPkg.best_state
                                     ELSE LoadedPkg.model]_vars

\* C11 witness: a checkpoint written under adam was loaded under sgd: the
\* weights are the stored ones, the optimizer is the one constructed.
C11_Witness ==
    /\ Loaded /\ boot[0].given /\ UseCheckpoint(args, boot[0], fs)
    /\ LoadedPkg.optim = "adam" /\ args.optim = "sgd"
    /\ LoadedPkg.optimizer # FreshOptim
    /\ optimizer[0] = FreshOptim
    /\ model[0] = LoadedPkg.model

\* Rank zero has returned from Solver.__init__ and not yet entered train.
Constructed == alive /\ pc[0] = "train_entry" /\ boot[0].given

\* The resume case of rank zero's construction.
FromCheckpoint ==
    /\ args.checkpoint /\ fs[CheckpointFile].st = "complete"
    /\ ~boot[0].restart

FromExternal == ~FromCheckpoint /\ boot[0].continue_from

\* C12: with a pretrained-model identifier, the constructed Solver holds
\* the pretrained weights in every resume case, while history and best
\* state are those of the case: the checkpoint's when resumed from it,
\* empty history and the package's best state when continued from an
\* external package, empty history and no best state when fresh.
C12_PretrainedOverwrites ==
    (Constructed /\ boot[0].continue_pretrained)
        => /\ model[0] = Pretrained
           /\ IF FromCheckpoint
              THEN /\ history[0] = fs[CheckpointFile].pkg.history
                   /\ BestVal(0) = fs[CheckpointFile].pkg.best_state
              ELSE IF FromExternal
              THEN /\ history[0] = <<>>
                   /\ BestVal(0) = ExtPkg.best_state
              ELSE /\ history[0] = <<>>
                   /\ BestVal(0) = NoneState

\* C12 witness: resumed from a checkpoint with a history whose weights
\* are not the pretrained ones, and the pretrained weights are in place.
C12_Witness ==
    /\ Constructed /\ boot[0].continue_pretrained /\ FromCheckpoint
    /\ Len(history[0]) > 0
    /\ fs[CheckpointFile].pkg.model # Pretrained
    /\ model[0] = Pretrained

\* The larger of two numbers.
Max(a, b) == IF a >= b THEN a ELSE b

\* Rank zero is in train, past line 162, and not on the save_again path.
InLoop == alive /\ ~args.save_again /\ pc[0] \in EpochPcs \cup {"loop", "done"}

\* The epoch indices train runs are len(history) at entry, ..., epochs - 1,
\* one after the other: while index e runs the history has e records, or
\* e + 1 once its record is appended; after the loop the history has
\* max(len at entry, epochs) records; and a train that found at least
\* epochs records returns with the history and weights construction gave.
C13_Range ==
    /\ (InLoop /\ pc[0] \in EpochPcs)
          => /\ first[0] <= epoch[0] /\ epoch[0] < args.epochs
             /\ nxt[0] = epoch[0] + 1
             /\ Len(history[0]) =
                   IF pc[0] \in AfterEpochPcs THEN epoch[0] + 1 ELSE epoch[0]
    /\ (InLoop /\ pc[0] = "done")
          => /\ nxt[0] = Max(first[0], args.epochs)
             /\ Len(history[0]) = nxt[0]
    /\ (InLoop /\ pc[0] = "done" /\ first[0] >= args.epochs)
          => /\ boot[0].given
             /\ history[0] = IF FromCheckpoint
                              THEN fs[CheckpointFile].pkg.history ELSE <<>>
             /\ model[0] = IF boot[0].continue_pretrained THEN Pretrained
                            ELSE IF FromCheckpoint
                            THEN fs[CheckpointFile].pkg.model
                            ELSE IF FromExternal THEN ExtWeights
                            ELSE InitModel

\* C13: train runs the epoch indices len(history), ..., epochs - 1 once
\* each in increasing order and then returns, unless the process is
\* killed; with at least epochs records at entry it runs no epoch and
\* leaves history and weights unchanged.
C13_EpochRange ==
    /\ []C13_Range
    /\ (alive /\ pc[0] = "loop") ~> (~alive \/ pc[0] = "done")

\* C13 witness: a resumed train ran the one epoch index left, index 1,
\* and has returned.
C13_Witness ==
    /\ InLoop /\ pc[0] = "done" /\ first[0] = 1 /\ args.epochs = 2
    /\ Len(history[0]) = 2 /\ epoch[0] = 1

Processed == run.ops # <<>>

\* The weights and the optimizer state are those the pass started with.
Untouched == model[0] = run.model0 /\ optimizer[0] = run.optim0

\* C15 as stated: when the pass of a Solver with acoustic-loss-only set
\* and acoustic loss disabled raises its configuration error, no batch
\* has been fetched, augmented or run through the model, and weights,
\* optimizer state and history are unchanged.
C15_FailsBeforeAnyBatch ==
    (/\ loss_args.acoustic_loss_only /\ ~loss_args.acoustic_loss
     /\ run.pc = "raised" /\ run.err = "acoustic_only")
        => /\ ~Has(run.ops, "fetch")
           /\ ~Has(run.ops, "augment")
           /\ ~Has(run.ops, "forward")
           /\ Untouched
           /\ history[0] = <<>>

\* The exceptions that report a wrong configuration.
ConfigErrors == {"loss", "acoustic_only", "ac_loss"}

\* C16 as stated: with an enhancement-loss kind that is none of l1, l2,
\* huber, whatever the other toggles, the first batch fails with a
\* configuration error and no optimizer step is made.
C16_UnknownKindFails ==
    (~(loss_args.loss \in LossKinds) /\ Processed)
        => /\ run.pc = "raised" /\ run.err \in ConfigErrors
           /\ run.i = 0 /\ run.steps = 0 /\ ~Has(run.ops, "step")
           /\ Untouched

\* C16 amended: with such a kind and acoustic-loss-only off, whatever the
\* stft-loss and acoustic-loss toggles, the first batch fails with the
\* error of the kind and no optimizer step is made; with
\* acoustic-loss-only on the kind is never examined.
C16_UnknownKindFailsUnlessAcousticOnly ==
    /\ (/\ ~(loss_args.loss \in LossKinds) /\ ~loss_args.acoustic_loss_only
        /\ Processed)
          => /\ run.pc = "raised" /\ run.err = "loss"
             /\ run.i = 0 /\ run.steps = 0 /\ ~Has(run.ops, "step")
             /\ Untouched
    /\ loss_args.acoustic_loss_only => run.err # "loss"

\* C16 witness: a training pass with kind l3, stft loss and acoustic loss
\* on, acoustic-loss-only off, failed on its first batch.
C16_Witness ==
    /\ loss_args.loss = "l3" /\ ~loss_args.acoustic_loss_only
    /\ loss_args.stft_loss /\ loss_args.acoustic_loss
    /\ ~run.cross_valid /\ run.pc = "raised" /\ run.err = "loss"
    /\ Has(run.ops, "forward")

\* C17 as stated: an AcousticLoss of a kind outside the four is never
\* constructed: its construction fails.
C17_UnknownTypeRejected ==
    ~(ac.loss_type \in AcTypes) => ~ac.built

\* C18: after a call with mode train the estimator is in training mode,
\* after a call with mode eval in evaluation mode; a call with any other
\* mode raises before the spectral transform and the estimator run and
\* leaves the estimator's mode as it was.
C18_Mode ==
    /\ ac.last.mode = "train" => ac.training
    /\ ac.last.mode = "eval" => ~ac.training
    /\ ~(ac.last.mode \in {"train", "eval", "none"})
          => /\ ac.last.err = "mode"
             /\ ac.last.ops = <<>>
             /\ ac.training = ac.last.before

\* C18 witness: a call with an unknown mode, made while the estimator was
\* in evaluation mode, left it there.
C18_Witness ==
    /\ ac.last.mode = "test" /\ ~ac.last.before /\ ~ac.training
    /\ ac.last.err = "mode"

\* The operations on the gradients and the optimizer.
IsOptimOp(op) == op \in {"zero_grad", "backward", "clip", "step"}

\* C19: a validation pass, whatever its length, leaves weights and
\* optimizer state unchanged, augments no batch and writes no periodic
\* checkpoint; a training pass does zero_grad, backward, the clipping if
\* configured and the optimizer step, in this order, once per batch.
C19_PassEffects ==
    /\ (run.cross_valid /\ run.pc # "idle")
          => /\ Untouched /\ run.steps = 0 /\ run.saves = 0
             /\ \A p \in CheckpointPaths : fs[p] = Absent
             /\ ~Has(run.ops, "augment") /\ ~Has(run.ops, "save_ckpts")
             /\ SelectSeq(run.ops, IsOptimOp) = <<>>
    /\ (~run.cross_valid /\ Processed)
          => /\ Has(run.ops, "augment")
             /\ SelectSeq(run.ops, IsOptimOp) =
                   IF run.pc = "raised" THEN <<>>
                   ELSE IF loss_args.gradient_clip
                   THEN <<"zero_grad", "backward", "clip", "step">>
                   ELSE <<"zero_grad", "backward", "step">>
             /\ run.steps = run.i
             /\ model[0] = OptimStep(run.model0, run.i)
             /\ optimizer[0] = OptimStep(run.optim0, run.i)

\* C19 witness: a validation pass over 1000 batches has returned.
C19_Witness ==
    /\ run.cross_valid /\ run.pc = "returned" /\ run.n = SaveEvery
    /\ run.ret.n = SaveEvery

\* C20: for every batch that yields a loss, loss = enh_loss + ac_loss:
\* without acoustic loss ac_loss = 0; with it ac_loss is the weight times
\* the acoustic loss; in acoustic-loss-only mode enh_loss = 0.  Hence the
\* three sums, and the three averages over the same number of batches,
\* satisfy total = enhancement + acoustic; and with l1, no stft loss, no
\* acoustic loss and the estimate equal to the clean signal all are 0.
C20_LossComposition ==
    LET b == run.batch
        w == loss_args.ac_loss_weight
    IN /\ (Processed /\ run.err = "none")
             => /\ b.loss = b.enh + b.ac
                /\ (~loss_args.acoustic_loss_only /\ ~loss_args.acoustic_loss)
                      => b.ac = 0 /\ b.loss = b.enh
                /\ (~loss_args.acoustic_loss_only /\ loss_args.acoustic_loss)
                      => b.ac = w * b.raw /\ b.loss = b.enh + w * b.raw
                /\ loss_args.acoustic_loss_only
                      => b.enh = 0 /\ b.loss = w * b.raw
                /\ (/\ loss_args.loss = "l1" /\ ~loss_args.stft_loss
                    /\ ~loss_args.acoustic_loss
                    /\ ~loss_args.acoustic_loss_only /\ b.d = 0)
                      => b.loss = 0 /\ b.enh = 0 /\ b.ac = 0
       /\ run.total_loss =
             run.total_enhancement_loss + run.total_acoustic_loss
       /\ run.pc = "returned"
             => /\ run.ret.n = run.n
                /\ run.ret.total_loss =
                      run.ret.total_enhancement_loss
                        + run.ret.total_acoustic_loss

\* C20 witness: a pass of two batches with stft loss and acoustic loss
\* has returned, both components positive.
C20_Witness ==
    /\ run.pc = "returned" /\ run.n = 2
    /\ loss_args.stft_loss /\ loss_args.acoustic_loss
    /\ ~loss_args.acoustic_loss_only
    /\ run.ret.total_enhancement_loss > 0
    /\ run.ret.total_acoustic_loss > 0

\* C21: the Solver calls the acoustic loss without a mode, so with mode
\* train: every batch that yields a loss in a pass with acoustic loss
\* enabled has called the acoustic loss, and after every batch that
\* called it, in a training pass or in a validation pass where the
\* enhancement model is in evaluation mode, the latest call had mode
\* train and the estimator is in training mode.
C21_EstimatorTraining ==
    (loss_args.acoustic_loss /\ Processed)
        => /\ run.err = "none" => Has(run.ops, "ac_loss")
           /\ Has(run.ops, "ac_loss")
                 => ac.last.mode = "train" /\ ac.training
           /\ run.cross_valid => ~run.model_training

\* C21 witness: a batch of a validation pass, the enhancement model in
\* evaluation mode, called the acoustic loss while the estimator was in
\* evaluation mode and left it in training mode.
C21_Witness ==
    /\ loss_args.acoustic_loss /\ run.cross_valid /\ ~run.model_training
    /\ Processed /\ run.err = "none" /\ Has(run.ops, "ac_loss")
    /\ ~ac.last.before /\ ac.training

====
